---- MODULE Spec2Model ----
(***************************************************************************)
(* The turn orchestrator Nardis (src/src/modules/nardis.ts) as a state     *)
(* machine: the players with their queues, routes, upgrades and Finance    *)
(* ledgers, the current-player reference, the turn counter and the         *)
(* browser's localStorage.  Player, Finance, Route, City and the util     *)
(* helpers are imported by nardis.ts and are modelled from their specified *)
(* contracts, and so is the stock market, of which only the declarations   *)
(* exist.                                                                  *)
(***************************************************************************)
EXTENDS Integers, Sequences, FiniteSets, TLC

VARIABLES
    players,        \* Nardis.players: Player[] (index = object identity)
    currentPlayer,  \* Nardis._currentPlayer: index into players
    turn,           \* Nardis._turn
    storage,        \* window.localStorage: key -> [present, val]
    nextRouteId,    \* id the next constructed Route receives
    last,           \* the last public call: its name, arguments and outcome
    saved,          \* what the last saveGame() wrote from: turn, players
    cost,           \* the locals of a running getPotentialRouteCost call
    stocks          \* Nardis.stocks: per player the valuation, price and holders

vars == <<players, currentPlayer, turn, storage, nextRouteId, last, saved, cost, stocks>>

(***************************************************************************)
(* Bounds of the model.                                                    *)
(***************************************************************************)
NumPlayers == 2
MaxRoutes == 2
MaxGameRoutes == 1
MaxTurn == 2
MaxDistance == 12
MaxUpgrades == 2
MaxRange == 4
MaxHeld == 2

(***************************************************************************)
(* Sequence helpers.                                                       *)
(***************************************************************************)
RemoveAt(s, i) == SubSeq(s, 1, i - 1) \o SubSeq(s, i + 1, Len(s))

\* BoundedSeq(S, n): the sequences over S of length at most n
BoundedSeq(S, n) == UNION {[1..k -> S] : k \in 0..n}

(***************************************************************************)
(* Identifiers.  Route ids are generated at construction, train ids come   *)
(* from the catalog.                                                       *)
(***************************************************************************)
Players == 1..NumPlayers
RouteId(n) == <<"route", n>>
RouteIds == {RouteId(n) : n \in 1..MaxRoutes}

PlayerTypes == {"Human", "Computer"}

\* FinanceType members used by nardis.ts
Track == "Track"
Train == "Train"

(***************************************************************************)
(* Finance: a ledger of expense entries keyed by (type, id), each holding  *)
(* an amount and a unit value.                                             *)
(***************************************************************************)
Matches(fin, type, id) ==
    {i \in 1..Len(fin) : fin[i].type = type /\ fin[i].id = id}

\* Finance.addToFinanceExpense(type, id, amount, value): append, or merge
\* into the entry with the same key
addToFinanceExpense(fin, type, id, amount, value) ==
    LET m == Matches(fin, type, id) IN
    IF m = {}
    THEN Append(fin, [type |-> type, id |-> id, amount |-> amount, value |-> value])
    ELSE LET i == CHOOSE j \in m : \A k \in m : j <= k
         IN  [fin EXCEPT ![i].amount = @ + amount]

\* Finance.removeFromFinanceExpense(type, id): delete the matching entry and
\* report whether one was found
removeFromFinanceExpense(fin, type, id) ==
    LET m == Matches(fin, type, id) IN
    IF m = {}
    THEN [fin |-> fin, ret |-> FALSE]
    ELSE LET i == CHOOSE j \in m : \A k \in m : j <= k
         IN  [fin |-> RemoveAt(fin, i), ret |-> TRUE]

\* total of the entries of one FinanceType
RECURSIVE ExpenseTotal(_, _)
ExpenseTotal(fin, type) ==
    IF fin = <<>> THEN 0
    ELSE (IF Head(fin).type = type THEN Head(fin).amount * Head(fin).value ELSE 0)
         + ExpenseTotal(Tail(fin), type)

(***************************************************************************)
(* Player: queue of [route, turnCost], active routes, upgrades, Finance.   *)
(***************************************************************************)
StartRange == 3

NewPlayer(id, type, gold, upgrades) ==
    [id |-> id, playerType |-> type, gold |-> gold, range |-> StartRange,
     queue |-> <<>>, routes |-> <<>>, upgrades |-> upgrades, finance |-> <<>>]

\* Player.addRouteToQueue(route, turnCost)
addRouteToQueue(p, route, turnCost) ==
    [p EXCEPT !.queue = Append(@, [route |-> route, turnCost |-> turnCost])]

QueueMatches(p, routeId) ==
    {i \in 1..Len(p.queue) : p.queue[i].route.id = routeId}

\* Player.removeRouteFromQueue(routeId): remove the queued route, report
\* whether it was found
removeRouteFromQueue(p, routeId) ==
    LET m == QueueMatches(p, routeId) IN
    IF m = {}
    THEN [p |-> p, ret |-> FALSE]
    ELSE LET i == CHOOSE j \in m : \A k \in m : j <= k
         IN  [p |-> [p EXCEPT !.queue = RemoveAt(@, i)], ret |-> TRUE]

\* the tick of Player.handleTurn: every queued route's remaining turn cost
\* goes down by one; at zero the route becomes active
RECURSIVE TickQueue(_)
TickQueue(q) ==
    IF q = <<>> THEN [queue |-> <<>>, active |-> <<>>]
    ELSE LET rest == TickQueue(Tail(q))
             e == Head(q)
         IN  IF e.turnCost - 1 <= 0
             THEN [queue |-> rest.queue, active |-> <<e.route>> \o rest.active]
             ELSE [queue |-> <<[e EXCEPT !.turnCost = @ - 1]>> \o rest.queue,
                   active |-> rest.active]

playerTick(p) ==
    LET t == TickQueue(p.queue) IN
    [p EXCEPT !.queue = t.queue, !.routes = @ \o t.active]

(***************************************************************************)
(* Catalog data and the proposals a caller can hand to                     *)
(* addRouteToPlayerQueue.                                                  *)
(***************************************************************************)
TrainCatalog == <<[id |-> <<"train", 1>>, cost |-> 30], [id |-> <<"train", 2>>, cost |-> 50]>>
Trains == {TrainCatalog[i] : i \in 1..Len(TrainCatalog)}
TrainIds == {t.id : t \in Trains}

\* the city catalog: cities along one line, at these positions
CityCatalog ==
    <<[name |-> "A", pos |-> 0], [name |-> "B", pos |-> 2], [name |-> "C", pos |-> 3],
      [name |-> "D", pos |-> 7]>>
Cities == {CityCatalog[i] : i \in 1..Len(CityCatalog)}

\* the resource catalog
ResourceCatalog == <<[name |-> "coal"], [name |-> "grain"]>>

\* a city reference that is undefined
NoCity == [name |-> "undefined", pos |-> 0]

TurnCosts == {1, 2}

BuyableRoutes ==
    {[cityOne |-> CityCatalog[1], cityTwo |-> CityCatalog[2], train |-> t,
      goldCost |-> 20, trainCost |-> t.cost, turnCost |-> c,
      purchasedOnTurn |-> 0] : t \in Trains, c \in TurnCosts}

\* a proposal without its first city
MalformedRoutes ==
    {[b EXCEPT !.cityOne = NoCity] : b \in {x \in BuyableRoutes : x.turnCost = 1}}

\* `${buyableRoute.cityOne.name} <--> ${buyableRoute.cityTwo.name}`: reading
\* the name of an undefined city is a TypeError
RouteConstructs(b) == b.cityOne # NoCity /\ b.cityTwo # NoCity

\* new Route(...): the constructor gives the route its id
NewRoute(id, b) ==
    [id |-> id, train |-> b.train, goldCost |-> b.goldCost]

(***************************************************************************)
(* Nardis.  A game value g holds the fields of one Nardis instance         *)
(* together with the id generator the Route constructor draws from.        *)
(***************************************************************************)
Game(ps, cur, t, n) ==
    [players |-> ps, currentPlayer |-> cur, turn |-> t, nextRouteId |-> n]

CurrentGame == Game(players, currentPlayer, turn, nextRouteId)

\* the expenses keyed the other way round
handleNewRoutePlayerFinanceSwappedKeys(g, b, id) ==
    LET cp == g.currentPlayer
        f1 == addToFinanceExpense(g.players[cp].finance, Track, b.train.id, 1, b.goldCost)
        f2 == addToFinanceExpense(f1, Train, id, 1, b.trainCost)
    IN  [g EXCEPT !.players[cp].finance = f2]

handleNewRoutePlayerFinance(g, b, id) ==
    LET cp == g.currentPlayer
        f1 == addToFinanceExpense(g.players[cp].finance, Track, id, 1, b.goldCost)
        f2 == addToFinanceExpense(f1, Train, b.train.id, 1, b.trainCost)
    IN  [g EXCEPT !.players[cp].finance = f2]

\* the expenses recorded before the Route is constructed
addRouteToPlayerQueueFinanceFirst(g, b) ==
    LET g0 == handleNewRoutePlayerFinance(g, b, RouteId(g.nextRouteId))
        route == NewRoute(RouteId(g.nextRouteId), b)
        g1 == [g0 EXCEPT !.nextRouteId = @ + 1]
        cp == g.currentPlayer
    IN  IF ~RouteConstructs(b)
        THEN [g |-> g0, threw |-> TRUE]
        ELSE [g |-> [g1 EXCEPT !.players[cp] = addRouteToQueue(@, route, b.turnCost)],
              threw |-> FALSE]

addRouteToPlayerQueue(g, b) ==
    IF ~RouteConstructs(b)
    THEN [g |-> g, threw |-> TRUE]
    ELSE LET route == NewRoute(RouteId(g.nextRouteId), b)
             g1 == [g EXCEPT !.nextRouteId = @ + 1]
             g2 == handleNewRoutePlayerFinance(g1, b, route.id)
             cp == g2.currentPlayer
         IN  [g |-> [g2 EXCEPT !.players[cp] = addRouteToQueue(@, route, b.turnCost)],
              threw |-> FALSE]

\* a && b of two removals: the second is not attempted when the first fails
handleRemoveRouteFromPlayerFinance(g, routeId, trainId) ==
    LET cp == g.currentPlayer
        r1 == removeFromFinanceExpense(g.players[cp].finance, Track, routeId)
        r2 == removeFromFinanceExpense(r1.fin, Train, trainId)
    IN  IF r1.ret
        THEN [g |-> [g EXCEPT !.players[cp].finance = r2.fin], ret |-> r2.ret]
        ELSE [g |-> [g EXCEPT !.players[cp].finance = r1.fin], ret |-> FALSE]

\* the removal with the ledger reversed whether or not the route was queued
removeRouteFromPlayerQueueUnguarded(g, routeId, trainId) ==
    LET cp == g.currentPlayer
        r == removeRouteFromQueue(g.players[cp], routeId)
    IN  handleRemoveRouteFromPlayerFinance(
            [g EXCEPT !.players[cp] = r.p], routeId, trainId)

removeRouteFromPlayerQueue(g, routeId, trainId) ==
    LET cp == g.currentPlayer
        r == removeRouteFromQueue(g.players[cp], routeId)
    IN  IF r.ret
        THEN handleRemoveRouteFromPlayerFinance(
                 [g EXCEPT !.players[cp] = r.p], routeId, trainId)
        ELSE [g |-> g, ret |-> FALSE]

(***************************************************************************)
(* Upgrades and their purchase.  An upgrade's value is the rational        *)
(* num / den.                                                              *)
(***************************************************************************)
TrackValueCheaper == "TrackValueCheaper"
TrainValueCheaper == "TrainValueCheaper"
TurnCostCheaper == "TurnCostCheaper"

Upgrade(id, type, num, den, price) ==
    [id |-> id, type |-> type, num |-> num, den |-> den, cost |-> price]

UpgradeCatalog ==
    <<Upgrade(<<"upgrade", 1>>, TrackValueCheaper, 0, 1, 40),
      Upgrade(<<"upgrade", 2>>, TrackValueCheaper, 1, 4, 40),
      Upgrade(<<"upgrade", 3>>, TrackValueCheaper, 1, 2, 60),
      Upgrade(<<"upgrade", 4>>, TrackValueCheaper, 1, 1, 80),
      Upgrade(<<"upgrade", 5>>, TrackValueCheaper, 3, 2, 90),
      Upgrade(<<"upgrade", 6>>, TurnCostCheaper, 1, 1, 40),
      Upgrade(<<"upgrade", 7>>, TurnCostCheaper, 2, 1, 60),
      Upgrade(<<"upgrade", 8>>, TurnCostCheaper, 3, 1, 80),
      Upgrade(<<"upgrade", 9>>, TrainValueCheaper, 1, 2, 70),
      Upgrade(<<"upgrade", 10>>, TrainValueCheaper, 1, 3, 50)>>
Upgrades == {UpgradeCatalog[i] : i \in 1..Len(UpgradeCatalog)}
UpgradeIds == {u.id : u \in Upgrades}

\* an id no catalog upgrade has
UnknownUpgradeId == <<"upgrade", 0>>

\* the value undefined where an Upgrade is expected (matchedUpgrade[0] of an
\* empty array)
Undefined == [id |-> <<"undefined", 0>>, type |-> "undefined", num |-> 0, den |-> 1, cost |-> 0]

IsTrackValueCheaper(u) == u.type = TrackValueCheaper
IsTurnCostCheaper(u) == u.type = TurnCostCheaper
IsTrainValueCheaper(u) == u.type = TrainValueCheaper

\* FinanceType.Upgrade
FinanceUpgrade == "Upgrade"

\* Player.addUpgrade(upgrade)
addUpgrade(p, upgrade) == [p EXCEPT !.upgrades = Append(@, upgrade)]

\* addUpgradeToPlayer(id): matchedUpgrade is an array, and an array is truthy
\* also when it is empty; matchedUpgrade[0] is then undefined and reading its
\* id is a TypeError, raised after addUpgrade(undefined) has run
addUpgradeToPlayer(g, id) ==
    LET cp == g.currentPlayer
        matchedUpgrade == SelectSeq(UpgradeCatalog, LAMBDA u : u.id = id)
        first == IF Len(matchedUpgrade) > 0 THEN matchedUpgrade[1] ELSE Undefined
        p1 == addUpgrade(g.players[cp], first)
    IN  IF first = Undefined
        THEN [g |-> [g EXCEPT !.players[cp] = p1], threw |-> TRUE, ret |-> FALSE]
        ELSE LET f == addToFinanceExpense(p1.finance, FinanceUpgrade, first.id, 1, first.cost)
             IN  [g |-> [g EXCEPT !.players[cp] = [p1 EXCEPT !.finance = f]],
                  threw |-> FALSE, ret |-> TRUE]

(***************************************************************************)
(* Player.handleTurn(info).  A move is what the decision routine of a      *)
(* Computer player does in one pass: nothing, a command issued through the *)
(* orchestrator, or a failure.                                             *)
(***************************************************************************)
ComputerProposals == {b \in BuyableRoutes : b.train = TrainCatalog[1] /\ b.turnCost = 1}

Moves ==
    {[kind |-> "idle"], [kind |-> "throw"]}
    \cup {[kind |-> "buy", b |-> b] : b \in ComputerProposals}

\* the moves of a Computer player whose turn ends normally: nothing, or one
\* of the three commands of the orchestrator
CommandMoves ==
    (Moves \ {[kind |-> "throw"]})
    \cup {[kind |-> "upgrade", id |-> UpgradeCatalog[1].id],
          [kind |-> "remove", routeId |-> RouteId(1), trainId |-> TrainCatalog[1].id]}

\* a command issued inside handleTurn: its return value is dropped
Issued(r) == [g |-> r.g, threw |-> r.threw]

playerHandleTurn(g, i, move) ==
    IF g.players[i].playerType = "Computer" /\ move.kind = "throw"
    THEN [g |-> g, threw |-> TRUE]
    ELSE LET g1 == [g EXCEPT !.players[i] = playerTick(@)]
         IN  IF g.players[i].playerType # "Computer" \/ move.kind = "idle"
             THEN [g |-> g1, threw |-> FALSE]
             ELSE IF move.kind = "buy"
             THEN addRouteToPlayerQueue(g1, move.b)
             ELSE IF move.kind = "upgrade"
             THEN Issued(addUpgradeToPlayer(g1, move.id))
             ELSE [g |-> removeRouteFromPlayerQueue(g1, move.routeId, move.trainId).g,
                   threw |-> FALSE]

\* the forEach of handleComputerTurn from index i on; script[i] is the move
\* of player i
\* the loop without the assignment this._currentPlayer = player
RECURSIVE computerLoopNoSwap(_, _, _)
computerLoopNoSwap(g, script, i) ==
    IF i > Len(g.players)
    THEN [g |-> g, threw |-> FALSE, handled |-> <<>>, moves |-> <<>>]
    ELSE IF i # g.currentPlayer /\ g.players[i].playerType = "Computer"
         THEN CHOOSE out \in
                  {IF r.threw
                   THEN [g |-> r.g, threw |-> TRUE, handled |-> <<i>>,
                         moves |-> <<script[i]>>]
                   ELSE LET rest == computerLoopNoSwap(r.g, script, i + 1)
                        IN  [rest EXCEPT !.handled = <<i>> \o @,
                                         !.moves = <<script[i]>> \o @] :
                   r \in {playerHandleTurn(g, i, script[i])}} : TRUE
         ELSE computerLoopNoSwap(g, script, i + 1)

\* handled lists the players that got a pass and moves what each did in it;
\* r is the outcome of the pass of player i
RECURSIVE computerLoop(_, _, _)
computerLoop(g, script, i) ==
    IF i > Len(g.players)
    THEN [g |-> g, threw |-> FALSE, handled |-> <<>>, moves |-> <<>>]
    ELSE IF i # g.currentPlayer /\ g.players[i].playerType = "Computer"
         THEN CHOOSE out \in
                  {IF r.threw
                   THEN [g |-> r.g, threw |-> TRUE, handled |-> <<i>>,
                         moves |-> <<script[i]>>]
                   ELSE LET rest == computerLoop(r.g, script, i + 1)
                        IN  [rest EXCEPT !.handled = <<i>> \o @,
                                         !.moves = <<script[i]>> \o @] :
                   r \in {playerHandleTurn([g EXCEPT !.currentPlayer = i], i, script[i])}} : TRUE
         ELSE computerLoop(g, script, i + 1)

\* the loop with the final restore of the current player left out
handleComputerTurnNoRestore(g, script) == computerLoop(g, script, 1)

handleComputerTurn(g, script) ==
    LET actualPlayer == g.currentPlayer
        r == computerLoop(g, script, 1)
    IN  IF r.threw THEN r ELSE [r EXCEPT !.g.currentPlayer = actualPlayer]

(***************************************************************************)
(* Text.  A string is the sequence of its character codes.                 *)
(***************************************************************************)
\* '' + n for n >= 0: the decimal digits
RECURSIVE numberToString(_)
numberToString(n) ==
    IF n < 10 THEN <<48 + n>> ELSE numberToString(n \div 10) \o <<48 + (n % 10)>>

\* the character of a base64 sextet: A-Z a-z 0-9 + /
B64Char(x) ==
    IF x < 26 THEN 65 + x
    ELSE IF x < 52 THEN 97 + (x - 26)
    ELSE IF x < 62 THEN 48 + (x - 52)
    ELSE IF x = 62 THEN 43 ELSE 47

\* btoa(s): base64 of the bytes of s, three bytes to four characters, "="
\* padding
RECURSIVE btoa(_)
btoa(s) ==
    IF s = <<>> THEN <<>>
    ELSE LET b1 == s[1]
             b2 == IF Len(s) >= 2 THEN s[2] ELSE 0
             b3 == IF Len(s) >= 3 THEN s[3] ELSE 0
             c1 == B64Char(b1 \div 4)
             c2 == B64Char((b1 % 4) * 16 + (b2 \div 16))
             c3 == IF Len(s) >= 2 THEN B64Char((b2 % 16) * 4 + (b3 \div 64)) ELSE 61
             c4 == IF Len(s) >= 3 THEN B64Char(b3 % 64) ELSE 61
         IN  <<c1, c2, c3, c4>> \o (IF Len(s) > 3 THEN btoa(SubSeq(s, 4, Len(s))) ELSE <<>>)

\* a JavaScript number that may be NaN
NaN == [nan |-> TRUE, n |-> 0]
Num(n) == [nan |-> FALSE, n |-> n]
Truthy(x) == ~x.nan /\ x.n # 0

IsDigit(c) == c >= 48 /\ c <= 57

RECURSIVE DigitsValue(_, _)
DigitsValue(s, acc) ==
    IF s = <<>> \/ ~IsDigit(Head(s)) THEN acc
    ELSE DigitsValue(Tail(s), acc * 10 + (Head(s) - 48))

\* parseInt(s): an optional sign, then the leading decimal digits; NaN when
\* there is none
parseInt(s) ==
    LET signed == s # <<>> /\ Head(s) \in {43, 45}
        body == IF signed THEN Tail(s) ELSE s
    IN  IF body = <<>> \/ ~IsDigit(Head(body)) THEN NaN
        ELSE Num((IF signed /\ Head(s) = 45 THEN -1 ELSE 1) * DigitsValue(body, 0))

\* btoa(JSON.stringify(x)) and JSON.parse(atob(s)) of a plain value
encodeJson(x) == <<x>>
decodeJson(s) == s[1]

(***************************************************************************)
(* localStorage and persistence.                                           *)
(***************************************************************************)
localKeys ==
    <<"HasActiveGame", "Trains", "Resources", "Upgrades", "Cities", "Players",
      "CurrentPlayer", "Turn">>
LocalKey == {localKeys[i] : i \in 1..Len(localKeys)}

Absent == [present |-> FALSE, val |-> <<>>]
Item(v) == [present |-> TRUE, val |-> v]
EmptyStorage == [k \in LocalKey |-> Absent]

\* Player.deconstruct() and Player.createFromStringifiedJSON(...)
playerDeconstruct(p) ==
    [id |-> p.id, playerType |-> p.playerType, gold |-> p.gold, range |-> p.range,
     queue |-> p.queue, routes |-> p.routes, upgrades |-> p.upgrades,
     finance |-> p.finance]

playerCreateFromStringifiedJSON(r) ==
    [id |-> r.id, playerType |-> r.playerType, gold |-> r.gold, range |-> r.range,
     queue |-> r.queue, routes |-> r.routes, upgrades |-> r.upgrades,
     finance |-> r.finance]

saveGame(g, store) ==
    [store EXCEPT
        !["HasActiveGame"] = Item(<<49>>),
        !["Trains"] = Item(encodeJson(TrainCatalog)),
        !["Resources"] = Item(encodeJson(<<>>)),
        !["Upgrades"] = Item(encodeJson(<<>>)),
        !["Cities"] = Item(encodeJson(<<>>)),
        !["Players"] =
            Item(encodeJson([i \in 1..Len(g.players) |-> playerDeconstruct(g.players[i])])),
        !["CurrentPlayer"] = Item(encodeJson(playerDeconstruct(g.players[g.currentPlayer]))),
        !["Turn"] = Item(btoa(numberToString(g.turn)))]

\* saveGame() when localStorage.setItem throws at the write of localKeys[k]
\* (the storage is full): the writes before it are made, the others are not
saveGameFailingAt(g, store, k) ==
    [key \in DOMAIN store |->
        IF \E i \in 1..(k - 1) : localKeys[i] = key
        THEN saveGame(g, store)[key]
        ELSE store[key]]

\* constructor(gameData, players, currentPlayer?, turn?); currentPlayer 0
\* stands for undefined
Nardis(ps, cur, t, n) ==
    Game(ps, IF cur # 0 THEN cur ELSE 1, IF Truthy(t) THEN t.n ELSE 1, n)

\* the factory handing the constructor a Player rebuilt from the CurrentPlayer
\* entry, an object of its own next to the rebuilt list (position Len + 1)
createFromLocalStorageRebuildingCurrent(store, n) ==
    IF ~store["HasActiveGame"].present \/ store["HasActiveGame"].val = <<>>
    THEN [threw |-> TRUE, g |-> Game(<<>>, 0, 0, n)]
    ELSE IF \E k \in {"Trains", "Cities", "Resources", "Upgrades", "Players",
                        "CurrentPlayer"} : ~store[k].present
    THEN [threw |-> TRUE, g |-> Game(<<>>, 0, 0, n)]
    ELSE LET playersRaw == decodeJson(store["Players"].val)
             ps == [i \in 1..Len(playersRaw) |->
                        playerCreateFromStringifiedJSON(playersRaw[i])]
             t == IF store["Turn"].present THEN parseInt(store["Turn"].val) ELSE NaN
         IN  [threw |-> FALSE, g |-> Nardis(ps, Len(ps) + 1, t, n)]

\* the static factory; n is the state of the Route id generator
createFromLocalStorage(store, n) ==
    IF ~store["HasActiveGame"].present \/ store["HasActiveGame"].val = <<>>
    THEN [threw |-> TRUE, g |-> Game(<<>>, 0, 0, n)]
    ELSE IF \E k \in {"Trains", "Cities", "Resources", "Upgrades", "Players",
                        "CurrentPlayer"} : ~store[k].present
    THEN [threw |-> TRUE, g |-> Game(<<>>, 0, 0, n)]
    ELSE LET playersRaw == decodeJson(store["Players"].val)
             currentPlayerRaw == decodeJson(store["CurrentPlayer"].val)
             ps == [i \in 1..Len(playersRaw) |->
                        playerCreateFromStringifiedJSON(playersRaw[i])]
             m == {i \in 1..Len(ps) : ps[i].id = currentPlayerRaw.id}
             cur == IF m = {} THEN 0 ELSE CHOOSE i \in m : \A j \in m : i <= j
             t == IF store["Turn"].present THEN parseInt(store["Turn"].val) ELSE NaN
         IN  [threw |-> FALSE, g |-> Nardis(ps, cur, t, n)]

\* the clearing loop started one key late
clearStorageFromSecondKey(store) ==
    [k \in DOMAIN store |->
        IF \E i \in 2..Len(localKeys) : localKeys[i] = k THEN Absent ELSE store[k]]

clearStorage(store) ==
    [k \in DOMAIN store |->
        IF \E i \in 1..Len(localKeys) : localKeys[i] = k THEN Absent ELSE store[k]]

\* the player whose handleTurn threw in the loop result r, 0 when none did
Thrower(r) == IF r.threw THEN r.handled[Len(r.handled)] ELSE 0

\* the save made before the turn counter is incremented
endTurnSaveFirst(g, store, script) ==
    LET r == handleComputerTurn(g, script)
        g1 == [r.g EXCEPT !.turn = @ + 1]
    IN  IF r.threw
        THEN [g |-> r.g, storage |-> store, threw |-> TRUE, handled |-> r.handled,
              moves |-> r.moves, thrower |-> Thrower(r), saved |-> FALSE]
        ELSE [g |-> g1, storage |-> saveGame(r.g, store), threw |-> FALSE,
              handled |-> r.handled, moves |-> r.moves, thrower |-> 0, saved |-> TRUE]

\* the error of a Computer player's turn caught and dropped
endTurnSwallowing(g, store, script) ==
    LET r == handleComputerTurn(g, script)
        g1 == [r.g EXCEPT !.turn = @ + 1]
    IN  [g |-> g1, storage |-> saveGame(g1, store), threw |-> FALSE,
         handled |-> r.handled, moves |-> r.moves, thrower |-> Thrower(r),
         saved |-> TRUE]

\* endTurn(): an error thrown in handleComputerTurn() leaves the call before
\* this._turn++ and saveGame()
endTurn(g, store, script) ==
    LET r == handleComputerTurn(g, script)
        g1 == [r.g EXCEPT !.turn = @ + 1]
    IN  IF r.threw
        THEN [g |-> r.g, storage |-> store, threw |-> TRUE, handled |-> r.handled,
              moves |-> r.moves, thrower |-> Thrower(r), saved |-> FALSE]
        ELSE [g |-> g1, storage |-> saveGame(g1, store), threw |-> FALSE,
              handled |-> r.handled, moves |-> r.moves, thrower |-> 0, saved |-> TRUE]

\* the current player put in front of the cities and resources
turnComponentsPlayerFirst(g) ==
    <<[kind |-> "player", idx |-> g.currentPlayer]>>
    \o [i \in 1..Len(CityCatalog) |-> [kind |-> "city", idx |-> i]]
    \o [i \in 1..Len(ResourceCatalog) |-> [kind |-> "resource", idx |-> i]]

\* [...this.data.cities, ...this.data.resources, this._currentPlayer]: a
\* component is its kind and its index in its list
turnComponents(g) ==
    [i \in 1..Len(CityCatalog) |-> [kind |-> "city", idx |-> i]]
    \o [i \in 1..Len(ResourceCatalog) |-> [kind |-> "resource", idx |-> i]]
    \o <<[kind |-> "player", idx |-> g.currentPlayer]>>

\* the forEach of startTurn over the components cs: each handleTurn(info)
\* call is recorded with its payload; City.handleTurn and Resource.handleTurn
\* change nothing the orchestrator holds
RECURSIVE turnLoop(_, _, _, _)
turnLoop(g, cs, info, move) ==
    IF cs = <<>> THEN [g |-> g, threw |-> FALSE, trace |-> <<>>]
    ELSE LET c == Head(cs)
             r == IF c.kind = "player"
                  THEN playerHandleTurn(g, c.idx, move)
                  ELSE [g |-> g, threw |-> FALSE]
             call == [kind |-> c.kind, idx |-> c.idx, info |-> info]
         IN  IF r.threw
             THEN [g |-> r.g, threw |-> TRUE, trace |-> <<call>>]
             ELSE LET rest == turnLoop(r.g, Tail(cs), info, move)
                  IN  [rest EXCEPT !.trace = <<call>> \o @]

startTurn(g, move) ==
    LET handleTurnInfo == [turn |-> g.turn, player |-> g.currentPlayer]
    IN  turnLoop(g, turnComponents(g), handleTurnInfo, move)

(***************************************************************************)
(* The route-cost formula.                                                 *)
(***************************************************************************)
\* getRangeTurnCost(distance): a monotonic step function of the distance
getRangeTurnCost(distance) ==
    IF distance < 5 THEN 1 ELSE IF distance < 9 THEN 2 ELSE 3

\* the discount without the floor guard
applyTrackValueCheaperNoClamp(goldCost, e) == goldCost - ((goldCost * e.num) \div e.den)

\* one pass of the valUp.forEach body
applyTrackValueCheaper(goldCost, e) ==
    LET value == (goldCost * e.num) \div e.den
    IN  IF goldCost - value < 10 THEN 10 ELSE goldCost - value

\* one pass of the turnUp.forEach body (e.value is a whole number)
applyTurnCostCheaper(turnCost, e) ==
    IF turnCost >= 2 THEN turnCost - (e.num \div e.den) ELSE turnCost

\* turnCost ? turnCost : 1
returnedTurnCost(turnCost) == IF turnCost # 0 THEN turnCost ELSE 1

CostIdle ==
    [pc |-> "idle", distance |-> 0, goldCost |-> 0, turnCost |-> 0, valUp |-> <<>>,
     turnUp |-> <<>>, applied |-> 0, ret |-> [goldCost |-> 0, turnCost |-> 0]]

\* getPotentialRouteCost(distance) up to the first loop
CostCall(distance) ==
    /\ cost.pc = "idle"
    /\ cost' = [CostIdle EXCEPT
                    !.pc = "valUp",
                    !.distance = distance,
                    !.valUp = SelectSeq(players[currentPlayer].upgrades, IsTrackValueCheaper),
                    !.turnUp = SelectSeq(players[currentPlayer].upgrades, IsTurnCostCheaper),
                    !.goldCost = distance * 2,
                    !.turnCost = getRangeTurnCost(distance)]
    /\ UNCHANGED <<players, currentPlayer, turn, storage, nextRouteId, last, saved, stocks>>

\* one iteration of valUp.forEach, or its end
CostValUp ==
    /\ cost.pc = "valUp"
    /\ IF cost.valUp = <<>>
       THEN cost' = [cost EXCEPT !.pc = "turnUp"]
       ELSE cost' = [cost EXCEPT
                        !.goldCost = applyTrackValueCheaper(@, Head(cost.valUp)),
                        !.valUp = Tail(@),
                        !.applied = @ + 1]
    /\ UNCHANGED <<players, currentPlayer, turn, storage, nextRouteId, last, saved, stocks>>

\* one iteration of turnUp.forEach, or its end
CostTurnUp ==
    /\ cost.pc = "turnUp"
    /\ IF cost.turnUp = <<>>
       THEN cost' = [cost EXCEPT !.pc = "return"]
       ELSE cost' = [cost EXCEPT
                        !.turnCost = applyTurnCostCheaper(@, Head(cost.turnUp)),
                        !.turnUp = Tail(@)]
    /\ UNCHANGED <<players, currentPlayer, turn, storage, nextRouteId, last, saved, stocks>>

CostReturn ==
    /\ cost.pc = "return"
    /\ cost' = [cost EXCEPT
                    !.pc = "done",
                    !.ret = [goldCost |-> cost.goldCost,
                             turnCost |-> returnedTurnCost(cost.turnCost)]]
    /\ UNCHANGED <<players, currentPlayer, turn, storage, nextRouteId, last, saved, stocks>>

(***************************************************************************)
(* The queries: route cost as one value, possible routes, adjusted train   *)
(* prices, the win state.                                                  *)
(***************************************************************************)
RECURSIVE foldTrackValueCheaper(_, _)
foldTrackValueCheaper(goldCost, valUp) ==
    IF valUp = <<>> THEN goldCost
    ELSE foldTrackValueCheaper(applyTrackValueCheaper(goldCost, Head(valUp)), Tail(valUp))

RECURSIVE foldTurnCostCheaper(_, _)
foldTurnCostCheaper(turnCost, turnUp) ==
    IF turnUp = <<>> THEN turnCost
    ELSE foldTurnCostCheaper(applyTurnCostCheaper(turnCost, Head(turnUp)), Tail(turnUp))

\* getPotentialRouteCost(distance) for the current player p
getPotentialRouteCost(p, distance) ==
    LET valUp == SelectSeq(p.upgrades, IsTrackValueCheaper)
        turnUp == SelectSeq(p.upgrades, IsTurnCostCheaper)
    IN  [goldCost |-> foldTrackValueCheaper(distance * 2, valUp),
         turnCost |-> returnedTurnCost(
                          foldTurnCostCheaper(getRangeTurnCost(distance), turnUp))]

\* City.distanceTo(other)
distanceTo(city, other) ==
    IF city.pos >= other.pos THEN city.pos - other.pos ELSE other.pos - city.pos

\* the range test with the lower bound left out
possibleRouteNoLowerBound(g, origin, city) ==
    LET distance == distanceTo(city, origin)
        c == getPotentialRouteCost(g.players[g.currentPlayer], distance)
    IN  IF distance <= g.players[g.currentPlayer].range
        THEN <<[cityOne |-> origin, cityTwo |-> city, distance |-> distance,
                goldCost |-> c.goldCost, turnCost |-> c.turnCost,
                purchasedOnTurn |-> g.turn]>>
        ELSE <<>>

\* the body of cities.forEach in getArrayOfPossibleRoutes: what one city adds
\* to potentialRoutes
possibleRoute(g, origin, city) ==
    LET constraint == g.players[g.currentPlayer].range
        distance == distanceTo(city, origin)
        c == getPotentialRouteCost(g.players[g.currentPlayer], distance)
    IN  IF distance > 0 /\ distance <= constraint
        THEN <<[cityOne |-> origin, cityTwo |-> city, distance |-> distance,
                goldCost |-> c.goldCost, turnCost |-> c.turnCost,
                purchasedOnTurn |-> g.turn]>>
        ELSE <<>>

RECURSIVE possibleRoutesFrom(_, _, _)
possibleRoutesFrom(g, origin, cities) ==
    IF cities = <<>> THEN <<>>
    ELSE possibleRoute(g, origin, Head(cities)) \o possibleRoutesFrom(g, origin, Tail(cities))

getArrayOfPossibleRoutes(g, origin) == possibleRoutesFrom(g, origin, CityCatalog)

\* upgrades.forEach(upgrade => cost -= Math.floor(cost * upgrade.value))
RECURSIVE adjustedCost(_, _)
adjustedCost(price, upgrades) ==
    IF upgrades = <<>> THEN price
    ELSE adjustedCost(price - ((price * Head(upgrades).num) \div Head(upgrades).den),
                      Tail(upgrades))

\* the discount written into the catalog train itself
getArrayOfAdjustedTrainsInPlace(g, trains) ==
    LET owned == g.players[g.currentPlayer].upgrades
        upgrades == SelectSeq(owned, IsTrainValueCheaper)
        after == [i \in 1..Len(trains) |->
                     [trains[i] EXCEPT !.cost = adjustedCost(@, upgrades)]]
    IN  IF \E i \in 1..Len(owned) : owned[i] = Undefined
        THEN [threw |-> TRUE, trains |-> trains, ret |-> <<>>]
        ELSE [threw |-> FALSE,
              trains |-> after,
              ret |-> [i \in 1..Len(trains) |-> [train |-> after[i], cost |-> after[i].cost]]]

\* getArrayOfAdjustedTrains() over the catalog trains: the catalog as the
\* call leaves it and the array it returns; reading the type of an undefined
\* upgrade is a TypeError
getArrayOfAdjustedTrains(g, trains) ==
    LET owned == g.players[g.currentPlayer].upgrades
        upgrades == SelectSeq(owned, IsTrainValueCheaper)
    IN  IF \E i \in 1..Len(owned) : owned[i] = Undefined
        THEN [threw |-> TRUE, trains |-> trains, ret |-> <<>>]
        ELSE [threw |-> FALSE,
              trains |-> trains,
              ret |-> [i \in 1..Len(trains) |->
                          [train |-> trains[i],
                           cost |-> adjustedCost(trains[i].cost, upgrades)]]]

\* the victory threshold of hasAnyPlayerWon
WinThreshold == 10000

\* hasAnyPlayerWon(): result is the filtered array, truthy also when empty;
\* player 0 stands for undefined
hasAnyPlayerWon(g) ==
    LET result == SelectSeq(g.players, LAMBDA p : p.gold > WinThreshold)
    IN  [player |-> IF Len(result) > 0 THEN result[1].id ELSE 0,
         hasWon |-> TRUE]

(***************************************************************************)
(* The stock market.  stocks[i] is the Stock of player i: the net worth    *)
(* it was last valued from, its price, and held[j], the units player j     *)
(* holds of it.                                                            *)
(***************************************************************************)
\* asset value of a list of routes: track and train
RECURSIVE AssetValue(_)
AssetValue(rs) ==
    IF rs = <<>> THEN 0
    ELSE Head(rs).goldCost + Head(rs).train.cost + AssetValue(Tail(rs))

\* net worth: gold + route asset value + train asset value
NetWorth(p) ==
    p.gold + AssetValue([i \in 1..Len(p.queue) |-> p.queue[i].route]) + AssetValue(p.routes)

\* the price of one unit of a stock, from its owner's net worth
StockDivisor == 2
StockPrice(netWorth) == netWorth \div StockDivisor

NewStocks(ps) ==
    [i \in 1..Len(ps) |->
        [netWorth |-> NetWorth(ps[i]), price |-> StockPrice(NetWorth(ps[i])),
         held |-> [j \in 1..Len(ps) |-> 0]]]

\* the trade carried out whether or not the buyer can pay or the seller holds
\* a unit
performStockActionUnchecked(g, st, playerId, buy) ==
    LET cp == g.currentPlayer IN
    IF playerId \notin 1..Len(st)
    THEN [g |-> g, stocks |-> st, ret |-> FALSE]
    ELSE IF buy
         THEN [g |-> [g EXCEPT !.players[cp].gold = @ - st[playerId].price],
               stocks |-> [st EXCEPT ![playerId].held[cp] = @ + 1], ret |-> TRUE]
         ELSE [g |-> [g EXCEPT !.players[cp].gold = @ + st[playerId].price],
               stocks |-> [st EXCEPT ![playerId].held[cp] = @ - 1], ret |-> TRUE]

\* performStockAction(playerId, buy): one unit of playerId's stock moves to
\* or from the current player at the current price
performStockAction(g, st, playerId, buy) ==
    LET cp == g.currentPlayer IN
    IF playerId \notin 1..Len(st)
    THEN [g |-> g, stocks |-> st, ret |-> FALSE]
    ELSE IF buy
         THEN IF g.players[cp].gold < st[playerId].price
              THEN [g |-> g, stocks |-> st, ret |-> FALSE]
              ELSE [g |-> [g EXCEPT !.players[cp].gold = @ - st[playerId].price],
                    stocks |-> [st EXCEPT ![playerId].held[cp] = @ + 1], ret |-> TRUE]
         ELSE IF st[playerId].held[cp] = 0
              THEN [g |-> g, stocks |-> st, ret |-> FALSE]
              ELSE [g |-> [g EXCEPT !.players[cp].gold = @ + st[playerId].price],
                    stocks |-> [st EXCEPT ![playerId].held[cp] = @ - 1], ret |-> TRUE]

buyStock(g, st, playerId) == performStockAction(g, st, playerId, TRUE)
sellStock(g, st, playerId) == performStockAction(g, st, playerId, FALSE)

\* updatePlayersNetWorth() and updateStocks(): every player, in list order
updatePlayersNetWorth(g, st) ==
    [i \in 1..Len(st) |-> [st[i] EXCEPT !.netWorth = NetWorth(g.players[i])]]

updateStocks(g, st) ==
    [i \in 1..Len(st) |-> [st[i] EXCEPT !.price = StockPrice(st[i].netWorth)]]

Step(name, idx) == [step |-> name, idx |-> idx]
StepsOver(name, ids) == [k \in 1..Len(ids) |-> Step(name, ids[k])]
AllPlayers(g) == [i \in 1..Len(g.players) |-> i]

\* the valuations recomputed before the Computer players take their turns
endTurnWithStocksValuedFirst(g, st, store, script) ==
    LET st2 == updateStocks(g, updatePlayersNetWorth(g, st))
        r == handleComputerTurn(g, script)
        g1 == [r.g EXCEPT !.turn = @ + 1]
    IN  IF r.threw
        THEN [g |-> r.g, stocks |-> st2, storage |-> store, threw |-> TRUE,
              trace |-> StepsOver("netWorth", AllPlayers(g))
                        \o StepsOver("stock", AllPlayers(g))
                        \o StepsOver("handleTurn", r.handled),
              snapshot |-> <<>>]
        ELSE [g |-> g1, stocks |-> st2, storage |-> saveGame(g1, store), threw |-> FALSE,
              trace |-> StepsOver("netWorth", AllPlayers(g))
                        \o StepsOver("stock", AllPlayers(g))
                        \o StepsOver("handleTurn", r.handled)
                        \o <<Step("save", 0)>>,
              snapshot |-> st2]

\* endTurn() of the game with a stock market: the Computer players' turns,
\* the turn counter, the valuations of every player, then the save; trace
\* lists the steps taken and snapshot the valuations the save wrote
endTurnWithStocks(g, st, store, script) ==
    LET r == handleComputerTurn(g, script)
        g1 == [r.g EXCEPT !.turn = @ + 1]
        st1 == updatePlayersNetWorth(g1, st)
        st2 == updateStocks(g1, st1)
    IN  IF r.threw
        THEN [g |-> r.g, stocks |-> st, storage |-> store, threw |-> TRUE,
              trace |-> StepsOver("handleTurn", r.handled), snapshot |-> <<>>]
        ELSE [g |-> g1, stocks |-> st2, storage |-> saveGame(g1, store), threw |-> FALSE,
              trace |-> StepsOver("handleTurn", r.handled)
                        \o StepsOver("netWorth", AllPlayers(g1))
                        \o StepsOver("stock", AllPlayers(g1))
                        \o <<Step("save", 0)>>,
              snapshot |-> st2]

(***************************************************************************)
(* The game: construction and the public calls.                            *)
(***************************************************************************)
StartGold == 1000

\* the record of a public call: pre holds the acting player's ledger and
\* queue as they were when the call was made
NoPre == [finance |-> <<>>, queue |-> <<>>]
Pre == [finance |-> players[currentPlayer].finance, queue |-> players[currentPlayer].queue]
Call(op, args, threw, ret, handled, pre) ==
    [op |-> op, args |-> args, threw |-> threw, ret |-> ret, handled |-> handled,
     pre |-> pre]
NoCall == Call("none", <<>>, FALSE, FALSE, <<>>, NoPre)

NothingSaved == [turn |-> 0, players |-> <<>>]

SetGame(g) ==
    /\ players' = g.players
    /\ currentPlayer' = g.currentPlayer
    /\ turn' = g.turn
    /\ nextRouteId' = g.nextRouteId

\* new Nardis(data, players, currentPlayer): any mix of player types, any
\* player of the list as the current one
Init ==
    /\ \E types \in [Players -> PlayerTypes] :
           players = [i \in Players |-> NewPlayer(i, types[i], StartGold, <<>>)]
    /\ currentPlayer \in Players
    /\ turn = 1
    /\ storage = EmptyStorage
    /\ nextRouteId = 1
    /\ last = NoCall
    /\ saved = NothingSaved
    /\ cost = CostIdle
    /\ stocks = NewStocks(players)

\* endTurn() when the save fails at the write of localKeys[k]: the error
\* leaves endTurn() after the Computer passes and this._turn++
endTurnStorageFull(g, store, script, k) ==
    CHOOSE x \in {IF r.threw
                  THEN r
                  ELSE [r EXCEPT !.storage = saveGameFailingAt(r.g, store, k),
                                 !.threw = TRUE, !.saved = FALSE] :
                  r \in {endTurn(g, store, script)}} : TRUE

\* one move per player; a Human player's handleTurn does nothing
ScriptsOver(moves) ==
    {s \in [Players -> moves] :
        \A i \in Players : players[i].playerType = "Human" => s[i].kind = "idle"}

Scripts == ScriptsOver(Moves)

\* the calls below construct routes only while fewer than limit exist
StartTurn(limit) ==
    \E move \in Moves :
        /\ players[currentPlayer].playerType = "Human" => move.kind = "idle"
        /\ \E r \in {startTurn(CurrentGame, move)} :
           /\ r.g.nextRouteId <= limit + 1
           /\ SetGame(r.g)
           /\ last' = Call("startTurn", <<>>, r.threw, FALSE, r.trace, NoPre)
        /\ UNCHANGED <<storage, saved, cost, stocks>>

\* endTurn() with the Computer players moving as one of scripts says; the
\* call record holds the moves of the passes as args and the player whose
\* handleTurn threw as ret
EndTurnOver(limit, scripts) ==
    \E script \in scripts :
        \E r \in {endTurn(CurrentGame, storage, script)} :
        /\ turn < MaxTurn
        /\ r.g.nextRouteId <= limit + 1
        /\ \A i \in Players : Len(r.g.players[i].upgrades) <= MaxUpgrades
        /\ SetGame(r.g)
        /\ storage' = r.storage
        /\ saved' = IF r.saved THEN [turn |-> r.g.turn, players |-> r.g.players] ELSE saved
        /\ last' = Call("endTurn", r.moves, r.threw, r.thrower, r.handled, NoPre)
        /\ UNCHANGED <<cost, stocks>>

EndTurn(limit) == EndTurnOver(limit, Scripts)

\* endTurn() with a storage that takes the first k - 1 writes of the save
EndTurnStorageFull ==
    \E script \in Scripts, k \in 1..Len(localKeys) :
        \E r \in {endTurnStorageFull(CurrentGame, storage, script, k)} :
        /\ turn < MaxTurn
        /\ r.g.nextRouteId <= MaxGameRoutes + 1
        /\ SetGame(r.g)
        /\ storage' = r.storage
        /\ last' = Call("endTurn", r.moves, r.threw, r.thrower, r.handled, NoPre)
        /\ UNCHANGED <<saved, cost, stocks>>

\* what the call record holds as the new route's id when none was constructed
NoRouteId == <<"route", 0>>

AddRouteToPlayerQueue(limit) ==
    \E b \in BuyableRoutes \cup MalformedRoutes :
        /\ nextRouteId <= limit
        /\ \E r \in {addRouteToPlayerQueue(CurrentGame, b)} :
           /\ SetGame(r.g)
           /\ last' = Call("addRouteToPlayerQueue", <<b>>, r.threw,
                           IF r.threw THEN NoRouteId ELSE RouteId(nextRouteId), <<>>, Pre)
        /\ UNCHANGED <<storage, saved, cost, stocks>>

RemoveRouteFromPlayerQueue ==
    \E routeId \in RouteIds, trainId \in TrainIds :
        \E r \in {removeRouteFromPlayerQueue(CurrentGame, routeId, trainId)} :
        /\ SetGame(r.g)
        /\ last' = Call("removeRouteFromPlayerQueue", <<routeId, trainId>>, FALSE, r.ret,
                        <<>>, NoPre)
        /\ UNCHANGED <<storage, saved, cost, stocks>>

ClearStorage ==
    /\ storage' = clearStorage(storage)
    /\ last' = Call("clearStorage", <<>>, FALSE, FALSE, <<>>, NoPre)
    /\ UNCHANGED <<players, currentPlayer, turn, nextRouteId, saved, cost, stocks>>

\* Nardis.createFromLocalStorage(): the game it returns replaces the running
\* one; when it throws, the running game stays
CreateFromLocalStorage ==
    \E r \in {createFromLocalStorage(storage, nextRouteId)} :
    /\ IF r.threw
       THEN UNCHANGED <<players, currentPlayer, turn, nextRouteId>>
       ELSE SetGame(r.g)
    /\ last' = Call("createFromLocalStorage", <<>>, r.threw, ~r.threw, <<>>, NoPre)
    /\ UNCHANGED <<storage, saved, cost, stocks>>

\* addUpgradeToPlayer(id) while the current player owns fewer than MaxUpgrades
AddUpgradeToPlayer ==
    \E id \in UpgradeIds \cup {UnknownUpgradeId} :
        \E r \in {addUpgradeToPlayer(CurrentGame, id)} :
        /\ Len(players[currentPlayer].upgrades) < MaxUpgrades
        /\ SetGame(r.g)
        /\ last' = Call("addUpgradeToPlayer", <<id>>, r.threw, r.ret, <<>>, NoPre)
        /\ UNCHANGED <<storage, saved, cost, stocks>>

GetArrayOfAdjustedTrains ==
    \E r \in {getArrayOfAdjustedTrains(CurrentGame, TrainCatalog)} :
    /\ last' = Call("getArrayOfAdjustedTrains", <<>>, r.threw,
                    [trains |-> r.trains, adjusted |-> r.ret], <<>>, NoPre)
    /\ UNCHANGED <<players, currentPlayer, turn, storage, nextRouteId, saved, cost, stocks>>

GetArrayOfPossibleRoutes ==
    \E origin \in Cities :
        /\ last' = Call("getArrayOfPossibleRoutes", <<origin>>, FALSE,
                        getArrayOfPossibleRoutes(CurrentGame, origin), <<>>, NoPre)
        /\ UNCHANGED <<players, currentPlayer, turn, storage, nextRouteId, saved, cost,
                       stocks>>

HasAnyPlayerWon ==
    /\ last' = Call("hasAnyPlayerWon", <<>>, FALSE, hasAnyPlayerWon(CurrentGame), <<>>, NoPre)
    /\ UNCHANGED <<players, currentPlayer, turn, storage, nextRouteId, saved, cost, stocks>>

\* the ids a caller passes to buyStock and sellStock: every player's and one
\* no player has
StockIds == Players \cup {0}

\* buyStock(playerId) while the current player holds fewer than MaxHeld units
\* of that stock
BuyStock ==
    \E playerId \in StockIds :
        \E r \in {buyStock(CurrentGame, stocks, playerId)} :
        /\ playerId \in Players => stocks[playerId].held[currentPlayer] < MaxHeld
        /\ SetGame(r.g)
        /\ stocks' = r.stocks
        /\ last' = Call("buyStock", <<playerId>>, FALSE, r.ret, <<>>, NoPre)
        /\ UNCHANGED <<storage, saved, cost>>

SellStock ==
    \E playerId \in StockIds :
        \E r \in {sellStock(CurrentGame, stocks, playerId)} :
        /\ SetGame(r.g)
        /\ stocks' = r.stocks
        /\ last' = Call("sellStock", <<playerId>>, FALSE, r.ret, <<>>, NoPre)
        /\ UNCHANGED <<storage, saved, cost>>

\* endTurn() of the game with a stock market
StockEndTurn ==
    \E script \in Scripts :
        \E r \in {endTurnWithStocks(CurrentGame, stocks, storage, script)} :
        /\ turn < MaxTurn
        /\ r.g.nextRouteId <= MaxGameRoutes + 1
        /\ SetGame(r.g)
        /\ stocks' = r.stocks
        /\ storage' = r.storage
        /\ saved' = IF r.threw THEN saved ELSE [turn |-> r.g.turn, players |-> r.g.players]
        /\ last' = Call("endTurnWithStocks", <<>>, r.threw, r.snapshot, r.trace, NoPre)
        /\ UNCHANGED cost

(***************************************************************************)
(* The whole game: turns, commands and persistence.                        *)
(***************************************************************************)
GameStartTurn == StartTurn(MaxGameRoutes)
GameEndTurn == EndTurn(MaxGameRoutes)
GameAddRoute == AddRouteToPlayerQueue(MaxGameRoutes)

Next ==
    \/ GameStartTurn
    \/ GameEndTurn
    \/ GameAddRoute
    \/ RemoveRouteFromPlayerQueue
    \/ ClearStorage
    \/ CreateFromLocalStorage

Spec == Init /\ [][Next]_vars

(***************************************************************************)
(* The turn cycle with persistence: route purchases, endTurn and the       *)
(* storage calls.                                                          *)
(***************************************************************************)
NextTurns ==
    \/ GameEndTurn
    \/ GameAddRoute
    \/ ClearStorage
    \/ CreateFromLocalStorage

SpecTurns == Init /\ [][NextTurns]_vars

(***************************************************************************)
(* The route commands and the turn tick, without persistence: more routes  *)
(* than the whole game above allows.                                       *)
(***************************************************************************)
LedgerStartTurn == StartTurn(MaxRoutes)
LedgerAddRoute == AddRouteToPlayerQueue(MaxRoutes)

NextLedger ==
    \/ LedgerStartTurn
    \/ LedgerAddRoute
    \/ RemoveRouteFromPlayerQueue

SpecLedger == Init /\ [][NextLedger]_vars

(***************************************************************************)
(* getPotentialRouteCost on its own: the current player owns any list of   *)
(* catalog upgrades, the distance is any distance up to MaxDistance.       *)
(***************************************************************************)
InitCost ==
    /\ \E ups \in BoundedSeq(Upgrades, MaxUpgrades) :
           players = [i \in Players |->
                        NewPlayer(i, "Human", StartGold, IF i = 1 THEN ups ELSE <<>>)]
    /\ currentPlayer = 1
    /\ turn = 1
    /\ storage = EmptyStorage
    /\ nextRouteId = 1
    /\ last = NoCall
    /\ saved = NothingSaved
    /\ cost = CostIdle
    /\ stocks = NewStocks(players)

CostCallAny == \E d \in 1..MaxDistance : CostCall(d)

NextCost ==
    \/ CostCallAny
    \/ CostValUp
    \/ CostTurnUp
    \/ CostReturn

SpecCost == InitCost /\ [][NextCost]_vars

(***************************************************************************)
(* The shop: upgrade purchases and the adjusted train prices.              *)
(***************************************************************************)
NextShop ==
    \/ AddUpgradeToPlayer
    \/ GetArrayOfAdjustedTrains

SpecShop == Init /\ [][NextShop]_vars

(***************************************************************************)
(* getArrayOfPossibleRoutes on its own: the current player has any range   *)
(* up to MaxRange and owns any list of catalog upgrades, at any turn.      *)
(***************************************************************************)
InitRoutes ==
    /\ \E ups \in BoundedSeq(Upgrades, MaxUpgrades), range \in 0..MaxRange :
           players = [i \in Players |->
                        IF i = 1
                        THEN [NewPlayer(i, "Human", StartGold, ups) EXCEPT !.range = range]
                        ELSE NewPlayer(i, "Human", StartGold, <<>>)]
    /\ currentPlayer = 1
    /\ turn \in 1..MaxTurn
    /\ storage = EmptyStorage
    /\ nextRouteId = 1
    /\ last = NoCall
    /\ saved = NothingSaved
    /\ cost = CostIdle
    /\ stocks = NewStocks(players)

NextRoutes == GetArrayOfPossibleRoutes

SpecRoutes == InitRoutes /\ [][NextRoutes]_vars

(***************************************************************************)
(* hasAnyPlayerWon on its own: every player has any of these gold values.  *)
(***************************************************************************)
GoldValues == {StartGold, WinThreshold, WinThreshold + 1, 2 * WinThreshold}

InitWin ==
    /\ \E types \in [Players -> PlayerTypes], gold \in [Players -> GoldValues] :
           players = [i \in Players |-> NewPlayer(i, types[i], gold[i], <<>>)]
    /\ currentPlayer \in Players
    /\ turn = 1
    /\ storage = EmptyStorage
    /\ nextRouteId = 1
    /\ last = NoCall
    /\ saved = NothingSaved
    /\ cost = CostIdle
    /\ stocks = NewStocks(players)

NextWin == HasAnyPlayerWon

SpecWin == InitWin /\ [][NextWin]_vars

(***************************************************************************)
(* The game with a stock market: trades, route purchases and endTurn.      *)
(***************************************************************************)
NextStocks ==
    \/ GameAddRoute
    \/ StockEndTurn

SpecStocks == Init /\ [][NextStocks]_vars

(***************************************************************************)
(* The stock trades on their own.                                          *)
(***************************************************************************)
NextTrades ==
    \/ BuyStock
    \/ SellStock

SpecTrades == Init /\ [][NextTrades]_vars

(***************************************************************************)
(* The turn cycle on its own: startTurn and endTurn.                       *)
(***************************************************************************)
NextCycle ==
    \/ GameStartTurn
    \/ GameEndTurn

SpecCycle == Init /\ [][NextCycle]_vars

(***************************************************************************)
(* Persistence with a storage that can be full: endTurn with a save that   *)
(* completes or fails part-way, clearStorage and the load.                 *)
(***************************************************************************)
NextSave ==
    \/ GameEndTurn
    \/ EndTurnStorageFull
    \/ ClearStorage
    \/ CreateFromLocalStorage

SpecSave == Init /\ [][NextSave]_vars

(***************************************************************************)
(* The delegation of turns: Computer players that buy routes and upgrades  *)
(* and take routes back, next to the current player's own purchases.       *)
(***************************************************************************)
DelegationEndTurn == EndTurnOver(MaxGameRoutes, ScriptsOver(CommandMoves))

NextDelegation ==
    \/ DelegationEndTurn
    \/ GameAddRoute

SpecDelegation == Init /\ [][NextDelegation]_vars

(***************************************************************************)
(* Properties.                                                             *)
(***************************************************************************)
Cur == players[currentPlayer]
FlagPresent == storage["HasActiveGame"].present

\* goldCost + train cost summed over a list of routes
RECURSIVE RouteCostSum(_)
RouteCostSum(rs) ==
    IF rs = <<>> THEN 0
    ELSE Head(rs).goldCost + Head(rs).train.cost + RouteCostSum(Tail(rs))

QueuedRoutes(p) == [i \in 1..Len(p.queue) |-> p.queue[i].route]
RouteIdsOf(rs) == [i \in 1..Len(rs) |-> rs[i].id]

\* C1: an endTurn() that returns normally leaves the turn counter exactly one
\* higher and the current player the same player as before the call.
C1_EndTurnAdvancesAndRestores ==
    [][(last'.op = "endTurn" /\ ~last'.threw)
        => (turn' = turn + 1 /\ currentPlayer' = currentPlayer)]_vars

\* a normal endTurn() in which at least one Computer player took its pass
C1_Witness == last.op = "endTurn" /\ ~last.threw /\ Len(last.handled) >= 1

\* C2: when a Computer player's handleTurn throws during endTurn(), the
\* current player is still the player that was current before the call.
C2_RestoredWhenTurnThrows ==
    [][(last'.op = "endTurn" /\ last'.threw) => currentPlayer' = currentPlayer]_vars

\* C3: for every player the Track and Train expense entries sum to the
\* goldCost + train cost of the player's queued and active routes.
C3_LedgerMatchesRoutes ==
    \A i \in Players :
        ExpenseTotal(players[i].finance, Track) + ExpenseTotal(players[i].finance, Train)
            = RouteCostSum(QueuedRoutes(players[i])) + RouteCostSum(players[i].routes)

\* C4: addRouteToPlayerQueue(r) directly followed by
\* removeRouteFromPlayerQueue(id of r, train id of r) returns true and leaves
\* the current player's ledger and queue as they were before the add.
C4_AddRemoveRoundTrip ==
    [][(/\ last.op = "addRouteToPlayerQueue"
        /\ last'.op = "removeRouteFromPlayerQueue"
        /\ last'.args = <<last.ret, last.args[1].train.id>>)
        => (/\ last'.ret = TRUE
            /\ players'[currentPlayer].finance = last.pre.finance
            /\ players'[currentPlayer].queue = last.pre.queue)]_vars

\* C5: removeRouteFromPlayerQueue with a routeId that is not in the current
\* player's queue returns false and changes no player's Finance ledger.
C5_RemoveUnknownRouteIsNoOp ==
    [][(/\ last'.op = "removeRouteFromPlayerQueue"
        /\ QueueMatches(Cur, last'.args[1]) = {})
        => (/\ last'.ret = FALSE
            /\ \A i \in Players : players'[i].finance = players[i].finance)]_vars

\* a rejected removal of a route that is not queued while the ledger holds a
\* Track entry for the route id and a Train entry for the train id
C5_Witness ==
    /\ last.op = "removeRouteFromPlayerQueue"
    /\ last.ret = FALSE
    /\ QueueMatches(Cur, last.args[1]) = {}
    /\ Matches(Cur.finance, Track, last.args[1]) # {}
    /\ Matches(Cur.finance, Train, last.args[2]) # {}

\* C6: for every distance d > 0 and every list of upgrades, the goldCost
\* getPotentialRouteCost(d) returns is at least 10.
C6_GoldCostAtLeast10 ==
    (cost.pc = "done" /\ cost.distance > 0) => cost.ret.goldCost >= 10

\* C7: for every distance d > 0 and every list of TurnCostCheaper upgrades,
\* the turnCost getPotentialRouteCost(d) returns is at least 1.
C7_TurnCostAtLeast1 ==
    (cost.pc = "done" /\ cost.distance > 0) => cost.ret.turnCost >= 1

\* C8: after each TrackValueCheaper upgrade is applied in
\* getPotentialRouteCost, goldCost is at least 10.
C8_GoldCostClamped == cost.applied >= 1 => cost.goldCost >= 10

\* two stacked upgrades applied to a base cost above 10, the clamp reached
C8_Witness == cost.applied >= 2 /\ cost.distance * 2 > 10 /\ cost.goldCost = 10

\* C9: the game createFromLocalStorage() returns has the saved game's turn
\* number, the saved players' gold values and the saved route and upgrade ids.
C9_PersistenceRoundTrip ==
    (last.op = "createFromLocalStorage" /\ ~last.threw /\ saved.turn >= 1)
    => /\ turn = saved.turn
       /\ Len(players) = Len(saved.players)
       /\ \A i \in 1..Len(players) :
            /\ players[i].gold = saved.players[i].gold
            /\ RouteIdsOf(QueuedRoutes(players[i])) = RouteIdsOf(QueuedRoutes(saved.players[i]))
            /\ RouteIdsOf(players[i].routes) = RouteIdsOf(saved.players[i].routes)
            /\ players[i].upgrades = saved.players[i].upgrades

\* C10: createFromLocalStorage() throws and returns no game whenever the
\* active-game flag is absent; clearStorage() removes the flag, and only a
\* save (a completed endTurn) brings it back.
C10_LoadFailsWithoutFlag ==
    [][/\ (last'.op = "createFromLocalStorage" /\ ~FlagPresent)
            => (last'.threw /\ last'.ret = FALSE)
       /\ last'.op = "clearStorage" => ~FlagPresent'
       /\ (~FlagPresent /\ FlagPresent') => (last'.op = "endTurn" /\ ~last'.threw)]_vars

\* a load that fails after a game had been saved and the storage cleared
C10_Witness ==
    /\ last.op = "createFromLocalStorage"
    /\ last.threw
    /\ saved.turn >= 1
    /\ ~FlagPresent

\* C11: addUpgradeToPlayer(id) returns true exactly when the catalog has an
\* upgrade with that id; for an id the catalog does not have it returns false
\* and leaves the current player's upgrade list and Finance ledger unchanged.
C11_AddUpgradeReportsCatalogMembership ==
    [][last'.op = "addUpgradeToPlayer"
        => /\ ~last'.threw
           /\ last'.ret = (last'.args[1] \in UpgradeIds)
           /\ last'.args[1] \notin UpgradeIds
                => /\ players'[currentPlayer].upgrades = players[currentPlayer].upgrades
                   /\ players'[currentPlayer].finance = players[currentPlayer].finance]_vars

\* C12: hasAnyPlayerWon() reports hasWon exactly when some player has gold
\* above 10000, with the first such player of the list; with no such player
\* it reports hasWon false and no player.
C12_WinReportedExactlyAboveThreshold ==
    last.op = "hasAnyPlayerWon"
    => LET winners == {i \in Players : players[i].gold > 10000} IN
       /\ last.ret.hasWon = (winners # {})
       /\ winners # {}
            => last.ret.player = players[CHOOSE i \in winners : \A j \in winners : i <= j].id
       /\ winners = {} => last.ret.player = 0

\* C13: when the construction of the Route fails in addRouteToPlayerQueue, no
\* Track or Train expense is written to the current player's Finance and
\* nothing is enqueued.
C13_FailedAddWritesNothing ==
    [][(last'.op = "addRouteToPlayerQueue" /\ last'.threw)
        => (\A i \in Players :
               /\ players'[i].finance = players[i].finance
               /\ players'[i].queue = players[i].queue)]_vars

\* a failed addRouteToPlayerQueue on a player that already has a queued route
\* and its expenses
C13_Witness ==
    /\ last.op = "addRouteToPlayerQueue"
    /\ last.threw
    /\ Len(Cur.queue) >= 1
    /\ Len(Cur.finance) >= 2

\* C14: addRouteToPlayerQueue(b) on a player with an empty ledger leaves a
\* Track expense of b.goldCost under the new route's id and a Train expense of
\* b.trainCost under b.train.id, and the route queued with turn cost
\* b.turnCost; removeRouteFromPlayerQueue with these ids right after returns
\* true and leaves neither expense.
C14_AddRecordsAndRemoveClears ==
    [][/\ (last'.op = "addRouteToPlayerQueue" /\ ~last'.threw /\ Cur.finance = <<>>)
            => LET b == last'.args[1]
                   p == players'[currentPlayer]
               IN  /\ p.finance =
                        <<[type |-> Track, id |-> last'.ret, amount |-> 1,
                           value |-> b.goldCost],
                          [type |-> Train, id |-> b.train.id, amount |-> 1,
                           value |-> b.trainCost]>>
                   /\ Len(p.queue) = Len(Cur.queue) + 1
                   /\ p.queue[Len(p.queue)].route.id = last'.ret
                   /\ p.queue[Len(p.queue)].turnCost = b.turnCost
       /\ (/\ last.op = "addRouteToPlayerQueue"
           /\ ~last.threw
           /\ last.pre.finance = <<>>
           /\ last'.op = "removeRouteFromPlayerQueue"
           /\ last'.args = <<last.ret, last.args[1].train.id>>)
            => /\ last'.ret = TRUE
               /\ Matches(players'[currentPlayer].finance, Track, last.ret) = {}
               /\ Matches(players'[currentPlayer].finance, Train,
                          last.args[1].train.id) = {}]_vars

\* the only route ever bought was removed again and the ledger is empty
C14_Witness ==
    /\ last.op = "removeRouteFromPlayerQueue"
    /\ last.ret = TRUE
    /\ nextRouteId = 2
    /\ Cur.finance = <<>>
    /\ Cur.queue = <<>>

\* C15: startTurn() calls handleTurn once on every city, then once on every
\* resource, then once on the current player, last, all with the same payload
\* that carries the current turn number.
C15_StartTurnOrder ==
    last.op = "startTurn"
    => LET t == last.handled
           n == Len(t)
       IN  /\ \A i \in 1..Len(CityCatalog) :
                Cardinality({k \in 1..n : t[k].kind = "city" /\ t[k].idx = i}) = 1
           /\ \A i \in 1..Len(ResourceCatalog) :
                Cardinality({k \in 1..n : t[k].kind = "resource" /\ t[k].idx = i}) = 1
           /\ Cardinality({k \in 1..n : t[k].kind = "player"}) = 1
           /\ t[n].kind = "player"
           /\ t[n].idx = currentPlayer
           /\ \A k, m \in 1..n :
                (t[k].kind = "city" /\ t[m].kind = "resource") => k < m
           /\ \A k \in 1..n : t[k].info = t[1].info /\ t[k].info.turn = turn

\* a startTurn() in a later turn than the first
C15_Witness ==
    /\ last.op = "startTurn"
    /\ turn >= 2
    /\ Len(last.handled) = Len(CityCatalog) + Len(ResourceCatalog) + 1

\* C16: in one endTurn() every Computer player other than the player that was
\* current at the call gets exactly one handleTurn pass, in list order, and
\* that player gets none, wherever it is in the list and whatever its type.
C16_ComputerPassesSkipCurrent ==
    (last.op = "endTurn" /\ ~last.threw)
    => last.handled =
          SelectSeq([i \in Players |-> i],
                    LAMBDA i : i # currentPlayer /\ players[i].playerType = "Computer")

\* C17: buyStock(playerId) with the current player's gold below the stock's
\* price returns false and changes no gold and no holding; sellStock(playerId)
\* with no unit held returns false and changes nothing.
C17_RejectedTradeChangesNothing ==
    [][/\ (/\ last'.op = "buyStock"
           /\ last'.args[1] \in Players
           /\ Cur.gold < stocks[last'.args[1]].price)
            => (last'.ret = FALSE /\ players' = players /\ stocks' = stocks)
       /\ (/\ last'.op = "sellStock"
           /\ last'.args[1] \in Players
           /\ stocks[last'.args[1]].held[currentPlayer] = 0)
            => (last'.ret = FALSE /\ players' = players /\ stocks' = stocks)]_vars

\* a purchase rejected for lack of gold by a player that holds units
C17_Witness ==
    /\ last.op = "buyStock"
    /\ last.ret = FALSE
    /\ last.args[1] \in Players
    /\ Cur.gold < stocks[last.args[1]].price
    /\ \E i \in Players : stocks[i].held[currentPlayer] > 0

C19_PossibleRoutesWithinRange ==
    last.op = "getArrayOfPossibleRoutes"
    => LET origin == last.args[1]
           r == last.ret
           within == {c \in Cities : /\ distanceTo(c, origin) > 0
                                     /\ distanceTo(c, origin) <= Cur.range}
       IN  /\ \A c \in within : Cardinality({k \in 1..Len(r) : r[k].cityTwo = c}) = 1
           /\ \A k \in 1..Len(r) : r[k].cityTwo \in within
           /\ \A k \in 1..Len(r) : r[k].purchasedOnTurn = turn

\* a call in a later turn that returns a city exactly at the range and leaves
\* out a city beyond it besides the origin
C19_Witness ==
    /\ last.op = "getArrayOfPossibleRoutes"
    /\ turn >= 2
    /\ \E k \in 1..Len(last.ret) : last.ret[k].distance = Cur.range
    /\ Len(last.ret) < Len(CityCatalog) - 1

\* the price after the first k of the upgrades ups, each taking
\* floor(price * value) off the price the one before left
RECURSIVE C20_Discounted(_, _, _)
C20_Discounted(price, ups, k) ==
    IF k = 0 THEN price
    ELSE LET before == C20_Discounted(price, ups, k - 1)
         IN  before - ((before * ups[k].num) \div ups[k].den)

\* C20: getArrayOfAdjustedTrains() leaves the cost of every catalog train as
\* it was, and returns for every train its base cost with the current
\* player's TrainValueCheaper upgrades applied in list order, each as
\* cost := cost - floor(cost * value).
C20_AdjustedTrainsLeaveCatalog ==
    last.op = "getArrayOfAdjustedTrains"
    => /\ last.ret.trains = TrainCatalog
       /\ ~last.threw
            => LET ups == SelectSeq(Cur.upgrades, LAMBDA u : u.type = "TrainValueCheaper")
                   a == last.ret.adjusted
               IN  /\ Len(a) = Len(TrainCatalog)
                   /\ \A i \in 1..Len(a) :
                        /\ a[i].train = TrainCatalog[i]
                        /\ a[i].cost = C20_Discounted(TrainCatalog[i].cost, ups, Len(ups))

\* prices returned for a player with two TrainValueCheaper upgrades
C20_Witness ==
    /\ last.op = "getArrayOfAdjustedTrains"
    /\ ~last.threw
    /\ Len(SelectSeq(Cur.upgrades, LAMBDA u : u.type = "TrainValueCheaper")) >= 2
    /\ last.ret.adjusted[1].cost < TrainCatalog[1].cost

\* C21: a removeRouteFromPlayerQueue(routeId, trainId) that returns false
\* leaves the current player's queue and Finance ledger as they were, also
\* when routeId is queued and the Track or the Train expense is missing.
C21_FalseRemovalHasNoEffect ==
    [][(last'.op = "removeRouteFromPlayerQueue" /\ last'.ret = FALSE)
        => (/\ players'[currentPlayer].queue = players[currentPlayer].queue
            /\ players'[currentPlayer].finance = players[currentPlayer].finance)]_vars

\* C22: a normal endTurn() writes to storage the turn number after the
\* increment, the player that was current before the call as the current
\* player, and every player as the Computer passes left it.
C22_SavedAfterRestoreAndIncrement ==
    [][(last'.op = "endTurn" /\ ~last'.threw)
        => /\ storage'["Turn"] = Item(btoa(numberToString(turn + 1)))
           /\ storage'["CurrentPlayer"].present
           /\ decodeJson(storage'["CurrentPlayer"].val)
                  = playerDeconstruct(players'[currentPlayer])
           /\ storage'["Players"].present
           /\ decodeJson(storage'["Players"].val)
                  = [i \in 1..Len(players') |-> playerDeconstruct(players'[i])]]_vars

\* a second turn ended and saved after a Computer player bought a route in
\* its pass
C22_Witness ==
    /\ last.op = "endTurn"
    /\ ~last.threw
    /\ \E k \in 1..Len(last.args) : last.args[k].kind = "buy"
    /\ storage["Turn"] = Item(btoa(numberToString(turn)))

\* C23: an endTurn() in which a Computer player's handleTurn throws ends with
\* that error, leaves the turn counter as it was and writes nothing to
\* storage.
C23_ThrowingTurnPropagates ==
    [][(last'.op = "endTurn" /\ last'.ret # 0)
        => (last'.threw /\ turn' = turn /\ storage' = storage)]_vars

\* an endTurn() ended by a Computer player's error while a save of an
\* earlier turn is in storage
C23_Witness ==
    /\ last.op = "endTurn"
    /\ last.threw
    /\ last.ret \in Players
    /\ FlagPresent

\* C24: no upgrade id is in the upgrade lists of two players, nor twice in
\* the list of one.
C24_UpgradeOwnedOnce ==
    \A i, j \in Players :
        \A k \in 1..Len(players[i].upgrades), m \in 1..Len(players[j].upgrades) :
            (/\ <<i, k>> # <<j, m>>
             /\ players[i].upgrades[k].id \in UpgradeIds)
            => players[i].upgrades[k].id # players[j].upgrades[m].id

\* C25: whenever the active-game flag is in storage, the trains, resources,
\* upgrades, cities, players, current-player and turn keys are in storage
\* too, also after a save that failed part-way.
C25_NoPartialSave ==
    FlagPresent => \A k \in LocalKey : storage[k].present

\* C26: in an endTurn() a player that gets no pass keeps its queue, upgrades
\* and Finance ledger, and a player that gets a pass has them changed by its
\* own command only: an upgrade it bought is the one new entry of its upgrade
\* list, its Track expenses grow by the route it bought and by nothing when
\* it bought none, and its queue changes by its own tick and purchase.
C26_CommandsChangeOnlyTheirIssuer ==
    [][last'.op = "endTurn"
        => \A j \in Players :
            LET own == {k \in 1..Len(last'.handled) : last'.handled[k] = j}
            IN  /\ own = {}
                    => /\ players'[j].queue = players[j].queue
                       /\ players'[j].upgrades = players[j].upgrades
                       /\ players'[j].finance = players[j].finance
                /\ \A k \in own :
                    /\ players'[j].upgrades
                          = IF last'.args[k].kind = "upgrade"
                            THEN Append(players[j].upgrades, UpgradeCatalog[1])
                            ELSE players[j].upgrades
                    /\ last'.args[k].kind = "buy"
                          => /\ ExpenseTotal(players'[j].finance, Track)
                                  = ExpenseTotal(players[j].finance, Track)
                                    + last'.args[k].b.goldCost
                             /\ Len(players'[j].queue)
                                  = Len(TickQueue(players[j].queue).queue) + 1
                    /\ last'.args[k].kind \in {"idle", "upgrade"}
                          => /\ ExpenseTotal(players'[j].finance, Track)
                                  = ExpenseTotal(players[j].finance, Track)
                             /\ players'[j].queue = TickQueue(players[j].queue).queue]_vars

\* an endTurn() in which a Computer player issued a command while the
\* current player had a route queued
C26_Witness ==
    /\ last.op = "endTurn"
    /\ ~last.threw
    /\ \E k \in 1..Len(last.args) :
           /\ last.args[k].kind \in {"buy", "upgrade", "remove"}
           /\ last.handled[k] # currentPlayer
    /\ Len(players[currentPlayer].queue) >= 1

\* C27: for every distance d > 0 and every owned list of TrackValueCheaper
\* upgrades with values in [0, 1], the goldCost getPotentialRouteCost(d)
\* returns is at most d * 2, the cost without upgrades.
C27_UpgradesNeverRaiseGoldCost ==
    (/\ cost.pc = "done"
     /\ cost.distance > 0
     /\ \A k \in 1..Len(Cur.upgrades) :
            Cur.upgrades[k].type = "TrackValueCheaper"
            => Cur.upgrades[k].num <= Cur.upgrades[k].den)
    => cost.ret.goldCost <= cost.distance * 2

\* C28: the current player is always one of the players of the list, also in
\* a game rebuilt from storage.
C28_CurrentPlayerInList == currentPlayer \in 1..Len(players)

\* a game rebuilt from storage whose current player is not the first of the
\* list
C28_Witness ==
    /\ last.op = "createFromLocalStorage"
    /\ ~last.threw
    /\ currentPlayer \in 2..Len(players)

====
